---- MODULE Spec2Model ----
(***************************************************************************)
(* The todo lifecycle engine: InMemoryTodoRepository (the Store),          *)
(* TodoService (the lifecycle service) and their callers.                  *)
(*                                                                         *)
(* JavaScript Date objects are mutable and are shared by reference by the  *)
(* object spread ({ ...todo }), so a Date is modelled as an address into   *)
(* a heap of time values. A record holds addresses in its four Date        *)
(* fields; every other field is a plain value.                             *)
(***************************************************************************)
EXTENDS Integers, Sequences, FiniteSets, TLC

\* ---------------------------------------------------------------- bounds
MaxTodos == 2
MaxTime == 1
MaxStamp == 3
MaxAddr == 12
MaxAliased == 1
MaxShared == 1
MaxTimers == 3
MaxRuns == 2

\* ------------------------------------------------------------ vocabulary
Undef == 0
NoId == 0
NaN == -1
Addr == 1..MaxAddr
Times == 0..MaxTime
KnownUsers == {"u1", "u2"}
ProcSeq == <<"p1", "p2">>
Procs == {ProcSeq[i] : i \in DOMAIN ProcSeq}
DateFields == {"remindAt", "deletedAt", "createdAt", "updatedAt"}
Fields == {"id", "userId", "title", "status"} \cup DateFields

VARIABLES
    todos,      \* InMemoryTodoRepository.todos: the stored records, in insertion order
    idCounter,  \* InMemoryTodoRepository.idCounter
    heap,       \* the live Date objects: address -> time value (getTime())
    now,        \* the wall clock read by new Date() / Date.now()
    ret,        \* Store caller: the records the last Store call returned
    own,        \* Store caller: Date objects the caller built and still holds
    last,       \* Store caller: what the last Store call was
    procs,      \* the TodoService calls in flight: position and locals of each
    doneAt,     \* per todo id: <<updatedAt>> stored by the first completion, <<>> before it
    obs,        \* the sequential client's notes: the Store as its current call found
                \* it, and which call it made before
    sched       \* SimpleScheduler.intervals, the timers setInterval created, and
                \* whether an error escaped to the process

vars == <<todos, idCounter, heap, now, ret, own, last, procs, doneAt, obs, sched>>

\* ------------------------------------------------------------- the heap
Min(S) == CHOOSE a \in S : \A b \in S : a <= b

Room(h) == Cardinality(Addr \ DOMAIN h)

\* new Date(t): a fresh object holding time value t
NewDate(h, t) ==
    LET a == Min(Addr \ DOMAIN h)
    IN  [heap |-> [x \in DOMAIN h \cup {a} |-> IF x = a THEN t ELSE h[x]],
         ref |-> a]

\* date.setTime(t)
SetTime(h, r, t) == [h EXCEPT ![r] = t]

\* The Date objects a record refers to.
Refs(todo) == {todo[f] : f \in DateFields} \ {Undef}

RefsOfSeq(s) == UNION {Refs(s[i]) : i \in DOMAIN s}

\* The Date fields of a record, in a fixed order.
RefSeq(todo) == <<todo.remindAt, todo.deletedAt, todo.createdAt, todo.updatedAt>>

RECURSIVE Flat(_)
Flat(s) == IF s = <<>> THEN <<>> ELSE RefSeq(Head(s)) \o Flat(Tail(s))

RECURSIVE SetSeq(_)
SetSeq(S) == IF S = {} THEN <<>> ELSE <<Min(S)>> \o SetSeq(S \ {Min(S)})

\* The objects of a sequence of references, each once, in order of first mention.
RECURSIVE Dedupe(_, _)
Dedupe(s, seen) ==
    IF s = <<>> THEN <<>>
    ELSE IF Head(s) = Undef \/ Head(s) \in seen THEN Dedupe(Tail(s), seen)
    ELSE <<Head(s)>> \o Dedupe(Tail(s), seen \cup {Head(s)})

Pos(order, r) == IF r = Undef THEN Undef ELSE CHOOSE i \in DOMAIN order : order[i] = r

RenameTodo(todo, order) ==
    [f \in DOMAIN todo |-> IF f \in DateFields THEN Pos(order, todo[f]) ELSE todo[f]]

RenameSeq(s, order) == [i \in DOMAIN s |-> RenameTodo(s[i], order)]

\* ------------------------------------------------------------ the Store
\* { ...todo }: a shallow copy. The copy has its own fields, and its Date
\* fields refer to the same Date objects as the original.
ShallowCopy(todo) == [f \in DOMAIN todo |-> todo[f]]

\* this.todos.findIndex((t) => t.id === id), 0 for -1
FindIndex(ts, id) ==
    IF \E i \in DOMAIN ts : ts[i].id = id
    THEN Min({i \in DOMAIN ts : ts[i].id = id})
    ELSE 0

\* A create that stamps updatedAt with a Date of its own, taken after createdAt.
RepoCreateTwoStamps(ts, h, ctr, clock, data) ==
    LET d1 == NewDate(h, clock)
        d2 == IF data.remindAt # Undef
              THEN NewDate(d1.heap, d1.heap[data.remindAt])
              ELSE [heap |-> d1.heap, ref |-> Undef]
        d3 == NewDate(d2.heap, clock + 1)
        todo == [id |-> ctr + 1,
                 userId |-> data.userId,
                 title |-> data.title,
                 status |-> data.status,
                 deletedAt |-> data.deletedAt,
                 remindAt |-> d2.ref,
                 createdAt |-> d1.ref,
                 updatedAt |-> d3.ref]
    IN  [todos |-> Append(ts, todo),
         heap |-> d3.heap,
         idCounter |-> ctr + 1,
         ret |-> <<ShallowCopy(todo)>>]

\* create(todoData): the next id, one new Date() for createdAt and updatedAt alike,
\* remindAt copied with new Date(todoData.remindAt)
RepoCreate(ts, h, ctr, clock, data) ==
    LET d1 == NewDate(h, clock)
        d2 == IF data.remindAt # Undef
              THEN NewDate(d1.heap, d1.heap[data.remindAt])
              ELSE [heap |-> d1.heap, ref |-> Undef]
        todo == [id |-> ctr + 1,
                 userId |-> data.userId,
                 title |-> data.title,
                 status |-> data.status,
                 deletedAt |-> data.deletedAt,
                 remindAt |-> d2.ref,
                 createdAt |-> d1.ref,
                 updatedAt |-> d1.ref]
    IN  [todos |-> Append(ts, todo),
         heap |-> d2.heap,
         idCounter |-> ctr + 1,
         ret |-> <<ShallowCopy(todo)>>]

\* a.getTime() <= b.getTime(): a comparison with NaN is false
Leq(a, b) == a # NaN /\ b # NaN /\ a <= b

\* updates.updatedAt ?? new Date()
ProvidedUpdatedAt(h, clock, updates) ==
    IF "updatedAt" \in DOMAIN updates /\ updates.updatedAt # Undef
    THEN [heap |-> h, ref |-> updates.updatedAt]
    ELSE NewDate(h, clock)

\* No guard: the supplied or fresh Date is stored as it comes.
NextUpdatedAtUnguarded(h, prev, provided) == [heap |-> h, ref |-> provided]

\* The guard with < for <=: an update that supplies the stored time keeps it.
NextUpdatedAtTies(h, prev, provided) ==
    IF prev # Undef /\ Leq(h[provided], h[prev]) /\ h[provided] # h[prev]
    THEN NewDate(h, h[prev] + 1)
    ELSE [heap |-> h, ref |-> provided]

\* previousUpdatedAt && providedUpdatedAt.getTime() <= previousUpdatedAt.getTime()
\*     ? new Date(previousUpdatedAt.getTime() + 1) : providedUpdatedAt
NextUpdatedAt(h, prev, provided) ==
    IF prev # Undef /\ Leq(h[provided], h[prev])
    THEN NewDate(h, h[prev] + 1)
    ELSE [heap |-> h, ref |-> provided]

\* The spreads in the other order, { ...updates, ...this.todos[index], updatedAt }:
\* the stored fields win over the payload's.
MergeStoredWins(todo, updates, nextRef) ==
    [f \in Fields |-> IF f = "updatedAt" THEN nextRef ELSE todo[f]]

\* { ...this.todos[index], ...updates, updatedAt: nextUpdatedAt }
Merge(todo, updates, nextRef) ==
    [f \in Fields |->
        IF f = "updatedAt" THEN nextRef
        ELSE IF f \in DOMAIN updates THEN updates[f]
        ELSE todo[f]]

\* An update that stores its payload as a new record when the id is absent.
RepoUpdateUpsert(ts, h, clock, id, updates) ==
    LET index == FindIndex(ts, id)
        p == ProvidedUpdatedAt(h, clock, updates)
        base == [f \in Fields |->
                    IF f = "id" THEN id
                    ELSE IF f = "title" THEN <<>>
                    ELSE IF f = "userId" THEN ""
                    ELSE IF f = "status" THEN "PENDING"
                    ELSE Undef]
        n == NextUpdatedAt(p.heap, IF index = 0 THEN Undef ELSE ts[index].updatedAt, p.ref)
        merged == Merge(IF index = 0 THEN base ELSE ts[index], updates, n.ref)
    IN  [todos |-> IF index = 0 THEN Append(ts, merged)
                   ELSE [ts EXCEPT ![index] = merged],
         heap |-> n.heap,
         ret |-> <<ShallowCopy(merged)>>]

\* An update that does not find a soft-deleted record.
RepoUpdateHidesDeleted(ts, h, clock, id, updates) ==
    LET index == FindIndex(ts, id)
    IN  IF index = 0 \/ ts[index].deletedAt # Undef
        THEN [todos |-> ts, heap |-> h, ret |-> <<>>]
        ELSE LET p == ProvidedUpdatedAt(h, clock, updates)
                 n == NextUpdatedAt(p.heap, ts[index].updatedAt, p.ref)
                 merged == Merge(ts[index], updates, n.ref)
             IN  [todos |-> [ts EXCEPT ![index] = merged],
                  heap |-> n.heap,
                  ret |-> <<ShallowCopy(merged)>>]

\* update(id, updates)
RepoUpdate(ts, h, clock, id, updates) ==
    LET index == FindIndex(ts, id)
    IN  IF index = 0
        THEN [todos |-> ts, heap |-> h, ret |-> <<>>]
        ELSE LET p == ProvidedUpdatedAt(h, clock, updates)
                 n == NextUpdatedAt(p.heap, ts[index].updatedAt, p.ref)
                 merged == Merge(ts[index], updates, n.ref)
             IN  [todos |-> [ts EXCEPT ![index] = merged],
                  heap |-> n.heap,
                  ret |-> <<ShallowCopy(merged)>>]

RepoFindById(ts, id) ==
    IF FindIndex(ts, id) = 0 THEN <<>> ELSE <<ShallowCopy(ts[FindIndex(ts, id)])>>

\* .map((todo) => ({ ...todo }))
MapCopy(s) == [i \in DOMAIN s |-> ShallowCopy(s[i])]

RepoFindByUserId(ts, userId) ==
    LET Keep(t) == t.userId = userId
    IN  MapCopy(SelectSeq(ts, Keep))

\* The filter with < for <=: a reminder set for currentTime itself is not yet due.
IsDueBefore(t, h, currentTime) ==
    /\ t.status = "PENDING"
    /\ t.remindAt # Undef
    /\ Leq(h[t.remindAt], currentTime)
    /\ h[t.remindAt] # currentTime

\* (t) => t.status === "PENDING" && t.remindAt instanceof Date &&
\*        t.remindAt.getTime() <= currentTime.getTime()
IsDue(t, h, currentTime) ==
    /\ t.status = "PENDING"
    /\ t.remindAt # Undef
    /\ Leq(h[t.remindAt], currentTime)

RepoFindDueReminders(ts, h, currentTime) ==
    LET Keep(t) == IsDue(t, h, currentTime)
    IN  MapCopy(SelectSeq(ts, Keep))

\* ------------------------------------------------- what a reader observes
\* A record as a caller reads it: each Date field as <<getTime()>>, <<>> if absent.
Deref(todo, h) ==
    [f \in Fields |->
        IF f \in DateFields
        THEN (IF todo[f] = Undef THEN <<>> ELSE <<h[todo[f]]>>)
        ELSE todo[f]]

View == [i \in DOMAIN todos |-> Deref(todos[i], heap)]

\* ------------------------------------------------------------ User Lookup
\* IUserRepository.findById as the service consumes it: does the user exist?
UserFindById(userId) == userId \in KnownUsers

\* ------------------------------------------------------------ TodoService
RECURSIVE TrimStart(_)
TrimStart(s) == IF s # <<>> /\ Head(s) = " " THEN TrimStart(Tail(s)) ELSE s

RECURSIVE TrimEnd(_)
TrimEnd(s) ==
    IF s # <<>> /\ s[Len(s)] = " " THEN TrimEnd(SubSeq(s, 1, Len(s) - 1)) ELSE s

\* String.prototype.trim
Trim(s) == TrimEnd(TrimStart(s))

\* typeof data.title === "string" ? data.title.trim() : undefined, <<>> for undefined:
\* the test that follows, !trimmedTitle, is true of undefined and of "" alike
TrimmedTitle(title) == IF title.isString THEN Trim(title.chars) ELSE <<>>

\* new Date(text).getTime(): the instant a well-formed text denotes, NaN otherwise
DateParse(input) == IF input.ok THEN input.t ELSE NaN

\* parseRemindAt without its Number.isNaN test: an Invalid Date passes.
ParseRemindAtUnchecked(h, input, ref) ==
    IF input.kind \in {"undefined", "null"}
    THEN [heap |-> h, ref |-> Undef, err |-> ""]
    ELSE LET parsed == IF input.kind = "date"
                       THEN [heap |-> h, ref |-> ref]
                       ELSE NewDate(h, DateParse(input))
         IN  [heap |-> parsed.heap, ref |-> parsed.ref, err |-> ""]

\* parseRemindAt; ref is the caller's Date object when the input is a Date
ParseRemindAt(h, input, ref) ==
    IF input.kind \in {"undefined", "null"}
    THEN [heap |-> h, ref |-> Undef, err |-> ""]
    ELSE LET parsed == IF input.kind = "date"
                       THEN [heap |-> h, ref |-> ref]
                       ELSE NewDate(h, DateParse(input))
         IN  IF parsed.heap[parsed.ref] = NaN
             THEN [heap |-> parsed.heap, ref |-> Undef, err |-> "ValidationError"]
             ELSE [heap |-> parsed.heap, ref |-> parsed.ref, err |-> ""]

\* completeTodo without its early return.
AlreadyDoneUnchecked(todo) == FALSE

\* An early return for soft-deleted todos as well.
AlreadyDoneOrDeleted(todo) == todo.status = "DONE" \/ todo.deletedAt # Undef

\* if (todo.status === "DONE") return todo
AlreadyDone(todo) == todo.status = "DONE"

\* A local that holds a record, cut down to the fields the code goes on to read.
Reads(found, F) ==
    [i \in DOMAIN found |->
        [f \in Fields |->
            IF f \in F THEN found[i][f]
            ELSE IF f = "title" THEN <<>>
            ELSE IF f \in {"userId", "status"} THEN ""
            ELSE 0]]

\* The sweep's test without its deletedAt half.
SweepSkipsStatusOnly(todo) == todo.status # "PENDING"

\* for (const todo of dueTodos) { if (todo.status !== "PENDING" || todo.deletedAt) continue; ...
\* the test reads the copy that findDueReminders returned
SweepSkips(todo) == todo.status # "PENDING" \/ todo.deletedAt # Undef

RECURSIVE SkipLeading(_)
SkipLeading(due) ==
    IF due # <<>> /\ SweepSkips(Head(due)) THEN SkipLeading(Tail(due)) ELSE due

\* GetTodosOptions: limit and offset as <<n>>, <<>> when not given
NoOptions == [limit |-> <<>>, offset |-> <<>>, includeDeleted |-> FALSE]

NoArg == [userId |-> "", title |-> [isString |-> FALSE, chars |-> <<>>],
          remindAt |-> [kind |-> "undefined", ok |-> FALSE, t |-> 0],
          remindAtRef |-> Undef, todoId |-> 0, currentTime |-> 0,
          options |-> NoOptions]

IdleProc == [op |-> "none", pc |-> "idle", arg |-> NoArg, user |-> FALSE,
             todo |-> <<>>, updated |-> <<>>, due |-> <<>>, processed |-> 0, writes |-> 0,
             result |-> <<>>, err |-> ""]

\* A new call in slot p: the locals of the call before it are gone.
NewCall(p, op, arg) == [IdleProc EXCEPT !.op = op, !.arg = arg]

Resting(p) == procs[p].pc = "idle"

ProcFlat(pr) ==
    Flat(pr.todo) \o Flat(pr.updated) \o Flat(pr.due) \o Flat(pr.result)
        \o <<pr.arg.remindAtRef>>

RECURSIVE ProcsFlat(_, _)
ProcsFlat(ps, i) ==
    IF i > Len(ProcSeq) THEN <<>> ELSE ProcFlat(ps[ProcSeq[i]]) \o ProcsFlat(ps, i + 1)

RenameProc(pr, order) ==
    [pr EXCEPT !.todo = RenameSeq(@, order), !.updated = RenameSeq(@, order),
               !.due = RenameSeq(@, order), !.result = RenameSeq(@, order),
               !.arg.remindAtRef = Pos(order, @)]

\* The end of every step. The runtime reclaims the Date objects that nothing refers
\* to any more, and which address an object has is not observable: the live
\* objects are renumbered in order of first mention.
Commit(ts, ctr, h, ps, r, o) ==
    LET order == Dedupe(Flat(ts) \o Flat(r) \o SetSeq(o) \o ProcsFlat(ps, 1), {})
    IN  /\ todos' = RenameSeq(ts, order)
        /\ idCounter' = ctr
        /\ heap' = [a \in 1..Len(order) |-> h[order[a]]]
        /\ procs' = [p \in Procs |-> RenameProc(ps[p], order)]
        /\ ret' = RenameSeq(r, order)
        /\ own' = {Pos(order, x) : x \in o}

\* The largest updatedAt an update of record id may produce must stay within MaxStamp.
StampRoom(id) ==
    \A i \in DOMAIN todos : todos[i].id = id => heap[todos[i].updatedAt] < MaxStamp

CreatesInFlight ==
    Cardinality({p \in Procs : procs[p].op = "createTodo" /\ procs[p].pc = "create_user"})

Thrown(pr, kind) == [pr EXCEPT !.pc = "done", !.err = kind]

\* ps with slot p replaced
With(p, pr) == [procs EXCEPT ![p] = pr]

\* createTodo up to its first await: userRepo.findById(userId)
CallCreateTodo(p, userId, title, remindAt) ==
    /\ Resting(p)
    /\ idCounter + CreatesInFlight < MaxTodos
    /\ Room(heap) >= 4
    /\ LET d == IF remindAt.kind = "date"
                THEN NewDate(heap, IF remindAt.ok THEN remindAt.t ELSE NaN)
                ELSE [heap |-> heap, ref |-> Undef]
           arg == [NoArg EXCEPT !.userId = userId, !.title = title,
                                !.remindAt = remindAt, !.remindAtRef = d.ref]
           pr == NewCall(p, "createTodo", arg)
           pr2 == IF userId = "" THEN Thrown(pr, "ValidationError")
                  ELSE IF TrimmedTitle(title) = <<>> THEN Thrown(pr, "ValidationError")
                  ELSE [pr EXCEPT !.pc = "create_user", !.user = UserFindById(userId)]
       IN  Commit(todos, idCounter, d.heap, With(p, pr2), ret, own)
    /\ UNCHANGED <<now, last, doneAt>>

\* createTodo from the user check to its second await: todoRepo.create(...)
CreateTodoStore(p) ==
    /\ procs[p].pc = "create_user"
    /\ LET pr == procs[p]
           parsed == ParseRemindAt(heap, pr.arg.remindAt, pr.arg.remindAtRef)
           c == RepoCreate(todos, parsed.heap, idCounter, now,
                           [userId |-> pr.arg.userId,
                            title |-> TrimmedTitle(pr.arg.title),
                            status |-> "PENDING",
                            remindAt |-> parsed.ref,
                            deletedAt |-> Undef])
       IN  IF ~pr.user
           THEN Commit(todos, idCounter, heap,
                       With(p, Thrown(pr, "NotFoundError")), ret, own)
           ELSE IF parsed.err # ""
           THEN Commit(todos, idCounter, parsed.heap,
                       With(p, Thrown(pr, parsed.err)), ret, own)
           ELSE Commit(c.todos, c.idCounter, c.heap,
                       With(p, [pr EXCEPT !.pc = "create_ret", !.todo = c.ret,
                                          !.writes = pr.writes + 1]),
                       ret, own)
    /\ UNCHANGED <<now, last, doneAt>>

\* return todo
CreateTodoReturn(p) ==
    /\ procs[p].pc = "create_ret"
    /\ Commit(todos, idCounter, heap,
              With(p, [procs[p] EXCEPT !.pc = "done", !.result = procs[p].todo]),
              ret, own)
    /\ UNCHANGED <<now, last, doneAt>>

\* completeTodo up to its first await: todoRepo.findById(todoId)
CallCompleteTodo(p, todoId) ==
    /\ Resting(p)
    /\ LET pr == NewCall(p, "completeTodo", [NoArg EXCEPT !.todoId = todoId])
           pr2 == IF todoId = NoId THEN Thrown(pr, "ValidationError")
                  ELSE [pr EXCEPT !.pc = "complete_found",
                                  !.todo = RepoFindById(todos, todoId)]
       IN  Commit(todos, idCounter, heap, With(p, pr2), ret, own)
    /\ UNCHANGED <<now, last, doneAt>>

\* completeTodo from the lookup's result to its second await: todoRepo.update(...)
CompleteTodoStore(p) ==
    /\ procs[p].pc = "complete_found"
    /\ LET pr == procs[p]
           d == NewDate(heap, now)
           u == RepoUpdate(todos, d.heap, now, pr.arg.todoId,
                           [status |-> "DONE", updatedAt |-> d.ref])
       IN  IF pr.todo = <<>>
           THEN /\ Commit(todos, idCounter, heap,
                          With(p, Thrown(pr, "NotFoundError")), ret, own)
                /\ UNCHANGED doneAt
           ELSE IF AlreadyDone(pr.todo[1])
           THEN /\ Commit(todos, idCounter, heap,
                          With(p, [pr EXCEPT !.pc = "done", !.result = pr.todo]),
                          ret, own)
                /\ UNCHANGED doneAt
           ELSE /\ StampRoom(pr.arg.todoId)
                /\ Room(heap) >= 2
                /\ Commit(u.todos, idCounter, u.heap,
                          With(p, [pr EXCEPT !.pc = "complete_updated",
                                             !.updated = u.ret,
                                             !.writes = pr.writes + 1]),
                          ret, own)
                /\ doneAt' = IF u.ret # <<>> /\ doneAt[pr.arg.todoId] = <<>>
                             THEN [doneAt EXCEPT ![pr.arg.todoId] =
                                      <<u.heap[u.ret[1].updatedAt]>>]
                             ELSE doneAt
    /\ UNCHANGED <<now, last>>

\* if (!updated) throw new NotFoundError(...); return updated
CompleteTodoReturn(p) ==
    /\ procs[p].pc = "complete_updated"
    /\ LET pr == procs[p]
       IN  Commit(todos, idCounter, heap,
                  With(p, IF pr.updated = <<>> THEN Thrown(pr, "NotFoundError")
                          ELSE [pr EXCEPT !.pc = "done", !.result = pr.updated]),
                  ret, own)
    /\ UNCHANGED <<now, last, doneAt>>

\* deleteTodo up to its first await: todoRepo.findById(todoId)
CallDeleteTodo(p, todoId) ==
    /\ Resting(p)
    /\ LET pr == NewCall(p, "deleteTodo", [NoArg EXCEPT !.todoId = todoId])
           pr2 == IF todoId = NoId THEN Thrown(pr, "ValidationError")
                  ELSE [pr EXCEPT !.pc = "delete_found",
                                  !.todo = Reads(RepoFindById(todos, todoId), {"id"})]
       IN  Commit(todos, idCounter, heap, With(p, pr2), ret, own)
    /\ UNCHANGED <<now, last, doneAt>>

\* deleteTodo from the lookup's result to its second await: todoRepo.update(...)
DeleteTodoStore(p) ==
    /\ procs[p].pc = "delete_found"
    /\ LET pr == procs[p]
           d1 == NewDate(heap, now)
           d2 == NewDate(d1.heap, now)
           u == RepoUpdate(todos, d2.heap, now, pr.arg.todoId,
                           [deletedAt |-> d1.ref, updatedAt |-> d2.ref])
       IN  IF pr.todo = <<>>
           THEN Commit(todos, idCounter, heap,
                       With(p, Thrown(pr, "NotFoundError")), ret, own)
           ELSE /\ StampRoom(pr.arg.todoId)
                /\ Room(heap) >= 3
                /\ Commit(u.todos, idCounter, u.heap,
                          With(p, [pr EXCEPT !.pc = "delete_updated",
                                             !.writes = pr.writes + 1]),
                          ret, own)
    /\ UNCHANGED <<now, last, doneAt>>

\* deleteTodo returns (Promise<void>)
DeleteTodoReturn(p) ==
    /\ procs[p].pc = "delete_updated"
    /\ Commit(todos, idCounter, heap,
              With(p, [procs[p] EXCEPT !.pc = "done", !.todo = <<>>]), ret, own)
    /\ UNCHANGED <<now, last, doneAt>>

\* Math.max / Math.min
Max(a, b) == IF a >= b THEN a ELSE b
Least(a, b) == IF a <= b THEN a ELSE b

\* Array.prototype.slice: an index below 0 counts from the end, and each index is
\* brought into 0..length
RelativeIndex(k, len) == IF k < 0 THEN Max(len + k, 0) ELSE Least(k, len)

Slice(s, start, end) ==
    SubSeq(s, RelativeIndex(start, Len(s)) + 1, RelativeIndex(end, Len(s)))

\* options?.offset, options?.limit as conditions: undefined and 0 are falsy
Truthy(n) == n # <<>> /\ n[1] # 0

\* x ?? d
OrElse(n, d) == IF n = <<>> THEN d ELSE n[1]

\* The filter that lets every record through.
FilterDeletedOff(found, includeDeleted) == found

\* options?.includeDeleted ? todos : todos.filter((t) => !t.deletedAt)
FilterDeleted(found, includeDeleted) ==
    LET Live(t) == t.deletedAt = Undef
    IN  IF includeDeleted THEN found ELSE SelectSeq(found, Live)

\* if (options?.offset || options?.limit) { ... return filtered.slice(offset, offset + limit) }
\* return filtered
Page(filtered, options) ==
    IF Truthy(options.offset) \/ Truthy(options.limit)
    THEN LET offset == Max(0, OrElse(options.offset, 0))
             limit == OrElse(options.limit, Len(filtered))
         IN  Slice(filtered, offset, offset + limit)
    ELSE filtered

\* getTodosByUser up to its await: todoRepo.findByUserId(userId)
CallGetTodosByUser(p, userId, options) ==
    /\ Resting(p)
    /\ LET pr == NewCall(p, "getTodosByUser",
                         [NoArg EXCEPT !.userId = userId, !.options = options])
           pr2 == [pr EXCEPT !.pc = "get_found",
                             !.todo = RepoFindByUserId(todos, userId)]
       IN  Commit(todos, idCounter, heap, With(p, pr2), ret, own)
    /\ UNCHANGED <<now, last, doneAt>>

\* getTodosByUser from the lookup's result to its return
GetTodosReturn(p) ==
    /\ procs[p].pc = "get_found"
    /\ LET pr == procs[p]
           filtered == FilterDeleted(pr.todo, pr.arg.options.includeDeleted)
       IN  Commit(todos, idCounter, heap,
                  With(p, [pr EXCEPT !.pc = "done", !.todo = <<>>,
                                     !.result = Page(filtered, pr.arg.options)]),
                  ret, own)
    /\ UNCHANGED <<now, last, doneAt>>

\* processReminders up to its first await: todoRepo.findDueReminders(currentTime)
CallProcessReminders(p, currentTime) ==
    /\ Resting(p)
    /\ LET pr == NewCall(p, "processReminders",
                         [NoArg EXCEPT !.currentTime = currentTime])
           pr2 == [pr EXCEPT !.pc = "sweep_loop",
                             !.due = Reads(RepoFindDueReminders(todos, heap, currentTime),
                                           {"id", "status", "deletedAt"})]
       IN  Commit(todos, idCounter, heap, With(p, pr2), ret, own)
    /\ UNCHANGED <<now, last, doneAt>>

\* processReminders from one await to the next: processed += 1 after the update it
\* awaited, then the loop runs on until it issues todoRepo.update for the next
\* record it does not skip, or until it ends and logs its summary
SweepStep(p) ==
    /\ procs[p].pc \in {"sweep_loop", "sweep_wrote"}
    /\ LET pr == procs[p]
           processed == IF pr.pc = "sweep_wrote" THEN pr.processed + 1 ELSE pr.processed
           rest == SkipLeading(pr.due)
           d == NewDate(heap, now)
           u == RepoUpdate(todos, d.heap, now, Head(rest).id,
                           [status |-> "REMINDER_DUE", updatedAt |-> d.ref])
       IN  IF rest = <<>>
           THEN Commit(todos, idCounter, heap,
                       With(p, [pr EXCEPT !.pc = "done", !.due = <<>>,
                                          !.processed = processed]),
                       ret, own)
           ELSE /\ StampRoom(Head(rest).id)
                /\ Room(heap) >= 2
                /\ Commit(u.todos, idCounter, u.heap,
                          With(p, [pr EXCEPT !.pc = "sweep_wrote", !.due = Tail(rest),
                                             !.processed = processed,
                                             !.writes = pr.writes + 1]),
                          ret, own)
    /\ UNCHANGED <<now, last, doneAt>>

\* The caller of the call in slot p takes its outcome: the slot is free again.
Settle(p) ==
    /\ procs[p].pc = "done"
    /\ Commit(todos, idCounter, heap, With(p, IdleProc), ret, own)
    /\ UNCHANGED <<now, last, doneAt>>

\* The wall clock advances.
Tick ==
    /\ now < MaxTime
    /\ now' = now + 1
    /\ UNCHANGED <<todos, idCounter, heap, ret, own, last, procs, doneAt>>

\* -------------------------------------------------------- SimpleScheduler
TaskNames == {"a", "b"}
Callbacks == {"f", "g"}

\* The last step of the scheduler: the method called and its name argument, or a
\* step of the runtime's timers.
NoEvent == [op |-> "none", name |-> ""]

\* intervals = new Map(); no timer yet. A timer's handle is its place in timers.
NoTimers ==
    [intervals |-> [n \in {} |-> 0], timers |-> <<>>, crashed |-> FALSE,
     event |-> NoEvent]

\* this.intervals.has(name)
Has(sc, name) == name \in DOMAIN sc.intervals

\* clearInterval(interval)
ClearInterval(tms, h) == [tms EXCEPT ![h].active = FALSE]

\* this.intervals.delete(name)
MapDelete(map, name) == [n \in DOMAIN map \ {name} |-> map[n]]

\* this.intervals.set(name, interval)
MapSet(map, name, h) == [n \in DOMAIN map \cup {name} |-> IF n = name THEN h ELSE map[n]]

\* A stop that forgets the timer: the registration goes, the timer runs on.
SchedStopKeepsTimer(sc, name) ==
    IF Has(sc, name) THEN [sc EXCEPT !.intervals = MapDelete(@, name)] ELSE sc

\* stop(name)
SchedStop(sc, name) ==
    IF Has(sc, name)
    THEN [sc EXCEPT !.timers = ClearInterval(@, sc.intervals[name]),
                    !.intervals = MapDelete(@, name)]
    ELSE sc

\* A registration that does not look for a prior one.
StopIfRegisteredSkipped(sc, name) == sc

\* if (this.intervals.has(name)) { this.stop(name); console.warn(...) }
StopIfRegistered(sc, name) ==
    IF Has(sc, name) THEN SchedStop(sc, name) ELSE sc

\* setInterval(wrapped, intervalMs): a new active timer that has run nothing yet
SetInterval(tms, name, fn) ==
    Append(tms, [name |-> name, fn |-> fn, active |-> TRUE, runs |-> <<>>])

\* A wrapper without try/catch: the failure of fn() is the failure of wrapped().
WrappedBare(outcome) ==
    IF outcome \in {"throws", "rejects"} THEN "escaped" ELSE "returned"

\* wrapped: try { await fn() } catch (error) { console.error(...) }, by how fn() ended
Wrapped(outcome) ==
    IF outcome \in {"throws", "rejects"} THEN "caught" ELSE "returned"

\* scheduleRecurring(name, intervalMs, fn); intervalMs sets the pace of the ticks,
\* which the timer steps leave open
ScheduleRecurring(name, fn) ==
    /\ ~sched.crashed
    /\ Len(sched.timers) < MaxTimers
    /\ LET sc == StopIfRegistered(sched, name)
           tms == SetInterval(sc.timers, name, fn)
       IN  sched' = [sc EXCEPT !.timers = tms,
                               !.intervals = MapSet(@, name, Len(tms)),
                               !.event = [op |-> "schedule", name |-> name]]
    /\ UNCHANGED <<todos, idCounter, heap, now, ret, own, last, procs, doneAt, obs>>

\* stop(name)
Stop(name) ==
    /\ ~sched.crashed
    /\ sched' = [SchedStop(sched, name) EXCEPT
                    !.event = [op |-> "stop", name |-> name]]
    /\ UNCHANGED <<todos, idCounter, heap, now, ret, own, last, procs, doneAt, obs>>

\* A run ended as end says; an error that escapes wrapped() is an unhandled
\* rejection, which ends the process.
Ended(sc, h, run, end) ==
    [sc EXCEPT !.timers[h].runs[run] = end,
               !.crashed = (end = "escaped")]

\* A tick of timer h: wrapped() is called and runs up to await fn(), where fn()
\* returns, throws, or hands back a promise that is still pending.
TimerFire(h, outcome) ==
    /\ ~sched.crashed
    /\ h \in DOMAIN sched.timers
    /\ sched.timers[h].active
    /\ Len(sched.timers[h].runs) < MaxRuns
    /\ LET run == Len(sched.timers[h].runs) + 1
           started == [sched EXCEPT !.timers[h].runs = Append(@, "running")]
           sc == IF outcome = "pending" THEN started
                 ELSE Ended(started, h, run, Wrapped(outcome))
       IN  sched' = [sc EXCEPT !.event = [op |-> "timer", name |-> ""]]
    /\ UNCHANGED <<todos, idCounter, heap, now, ret, own, last, procs, doneAt, obs>>

\* The promise that run of timer h awaits settles: await fn() resumes or throws.
RunSettle(h, run, outcome) ==
    /\ ~sched.crashed
    /\ h \in DOMAIN sched.timers
    /\ run \in DOMAIN sched.timers[h].runs
    /\ sched.timers[h].runs[run] = "running"
    /\ sched' = [Ended(sched, h, run, Wrapped(outcome)) EXCEPT
                    !.event = [op |-> "timer", name |-> ""]]
    /\ UNCHANGED <<todos, idCounter, heap, now, ret, own, last, procs, doneAt, obs>>

\* --------------------------------------------------- a caller of the Store
\* The Date objects the caller can reach: the one it built, and those the records
\* it was handed refer to.
Held == own \cup RefsOfSeq(ret)

NoCall == [op |-> "none", id |-> NoId, index |-> 0, supplied |-> <<>>]

\* What an update call was: its target, where the target is stored (0: nowhere),
\* and the time of the updatedAt its payload carried, if any.
UpdateCalled(id, supplied) ==
    [op |-> "update", id |-> id, index |-> FindIndex(todos, id), supplied |-> supplied]

\* const d = new Date(t), kept by the caller
CallerNewDate(t) ==
    /\ Room(heap) >= 1
    /\ LET d == NewDate(heap, t)
       IN  Commit(todos, idCounter, d.heap, procs, ret, {d.ref})
    /\ last' = [NoCall EXCEPT !.op = "newDate"]
    /\ UNCHANGED <<now, doneAt>>

\* await repo.create(data)
StoreCreate(data) ==
    /\ idCounter < MaxTodos
    /\ Room(heap) >= 2
    /\ LET c == RepoCreate(todos, heap, idCounter, now, data)
       IN  Commit(c.todos, c.idCounter, c.heap, procs, c.ret, own)
    /\ last' = [NoCall EXCEPT !.op = "create"]
    /\ UNCHANGED <<now, doneAt>>

\* await repo.update(id, updates)
StoreUpdate(id, updates) ==
    /\ StampRoom(id)
    /\ Room(heap) >= 2
    /\ LET u == RepoUpdate(todos, heap, now, id, updates)
       IN  Commit(u.todos, idCounter, u.heap, procs, u.ret, own)
    /\ last' = UpdateCalled(id, IF "updatedAt" \in DOMAIN updates
                                   /\ updates.updatedAt # Undef
                                THEN <<heap[updates.updatedAt]>> ELSE <<>>)
    /\ UNCHANGED <<now, doneAt>>

\* await repo.update(id, { ...updates, [field]: new Date(t) }): the caller builds
\* the Date for this call and keeps no reference to it
StoreUpdateFresh(id, updates, field, t) ==
    /\ StampRoom(id)
    /\ Room(heap) >= 3
    /\ LET d == NewDate(heap, t)
           payload == [f \in DOMAIN updates \cup {field} |->
                          IF f = field THEN d.ref ELSE updates[f]]
           u == RepoUpdate(todos, d.heap, now, id, payload)
       IN  Commit(u.todos, idCounter, u.heap, procs, u.ret, own)
    /\ last' = UpdateCalled(id, IF field = "updatedAt" THEN <<t>> ELSE <<>>)
    /\ UNCHANGED <<now, doneAt>>

\* await repo.findById(id) / findByUserId(userId) / findDueReminders(currentTime)
StoreFind(found) ==
    /\ Commit(todos, idCounter, heap, procs, found, own)
    /\ last' = [NoCall EXCEPT !.op = "find"]
    /\ UNCHANGED <<now, doneAt>>

\* returned.<date field>.setTime(t), or d.setTime(t) on a Date the caller passed in
CallerSetTime(r, t) ==
    /\ r \in Held
    /\ heap[r] # t
    /\ Commit(todos, idCounter, SetTime(heap, r, t), procs, ret, own)
    /\ last' = [NoCall EXCEPT !.op = "mutate"]
    /\ UNCHANGED <<now, doneAt>>

\* returned.status = s
CallerAssignStatus(i, s) ==
    /\ i \in DOMAIN ret
    /\ ret[i].status # s
    /\ Commit(todos, idCounter, heap, procs, [ret EXCEPT ![i].status = s], own)
    /\ last' = [NoCall EXCEPT !.op = "mutate"]
    /\ UNCHANGED <<now, doneAt>>

\* The wall clock advances between two Store calls.
StoreTick ==
    /\ now < MaxTime
    /\ now' = now + 1
    /\ last' = [NoCall EXCEPT !.op = "tick"]
    /\ UNCHANGED <<todos, idCounter, heap, ret, own, procs, doneAt>>

\* ------------------------------------------------------- specifications
NoNotes == [before |-> <<>>, counterBefore |-> 0, prevSweep |-> <<>>]

Init ==
    /\ todos = <<>>
    /\ idCounter = 0
    /\ heap = [a \in {} |-> 0]
    /\ now = 0
    /\ ret = <<>>
    /\ own = {}
    /\ last = NoCall
    /\ procs = [p \in Procs |-> IdleProc]
    /\ doneAt = [i \in 1..(MaxTodos + 1) |-> <<>>]
    /\ obs = NoNotes
    /\ sched = NoTimers

StoreIds == 1..(MaxTodos + 1)

\* The Date a payload may carry: the one the caller built, or none.
OwnOrUndef == own \cup {Undef}

NoUpdates == [f \in {} |-> Undef]

\* repo.update(id, ...) with each payload a caller may send
UpdateCall(id) ==
    \/ StoreUpdate(id, NoUpdates)
    \/ StoreUpdate(id, [updatedAt |-> Undef])
    \/ \E t \in Times : StoreUpdateFresh(id, NoUpdates, "updatedAt", t)
    \/ \E t \in Times : StoreUpdateFresh(id, [status |-> "DONE"], "updatedAt", t)
    \/ \E i \in 1..MaxTodos : StoreUpdate(id, [id |-> i])
    \/ \E u \in KnownUsers : StoreUpdate(id, [userId |-> u])
    \/ \E t \in Times : StoreUpdateFresh(id, NoUpdates, "createdAt", t)

\* Store calls by a caller that leaves the records it is handed alone.
StoreNext ==
    \/ StoreTick
    \/ \E u \in KnownUsers :
          StoreCreate([userId |-> u, title |-> <<"a">>, status |-> "PENDING",
                       remindAt |-> Undef, deletedAt |-> Undef])
    \/ \E id \in StoreIds : UpdateCall(id)

SpecStore == Init /\ [][StoreNext /\ UNCHANGED <<obs, sched>>]_vars

\* Store calls by a caller that goes on to change what it passed in and what it
\* was handed.
AliasNext ==
    \/ \E t \in Times : CallerNewDate(t)
    \/ \E r \in OwnOrUndef :
          /\ idCounter < MaxAliased
          /\ StoreCreate([userId |-> "u1", title |-> <<"a">>, status |-> "PENDING",
                          remindAt |-> r, deletedAt |-> Undef])
    \/ \E id \in StoreIds, r \in OwnOrUndef : StoreUpdate(id, [updatedAt |-> r])
    \/ \E id \in StoreIds, r \in own : StoreUpdate(id, [deletedAt |-> r])
    \/ \E id \in StoreIds : StoreFind(RepoFindById(todos, id))
    \/ StoreFind(RepoFindByUserId(todos, "u1"))
    \/ \E t \in Times : StoreFind(RepoFindDueReminders(todos, heap, t))
    \/ \E r \in Addr, t \in Times : CallerSetTime(r, t)
    \/ \E i \in 1..MaxTodos : CallerAssignStatus(i, "DONE")

SpecAlias == Init /\ [][AliasNext /\ UNCHANGED <<obs, sched>>]_vars

\* ---------------------------------------------------- callers of the service
UserInputs == {"", "u1", "u9"}

TitleInputs ==
    {[isString |-> FALSE, chars |-> <<>>]}
        \cup {[isString |-> TRUE, chars |-> c] :
                 c \in {<<>>, <<" ">>, <<"a">>, <<" ", "a", " ">>}}

RemindInputs ==
    {[kind |-> k, ok |-> FALSE, t |-> 0] : k \in {"undefined", "null", "text", "date"}}
        \cup {[kind |-> k, ok |-> TRUE, t |-> t] : k \in {"text", "date"}, t \in Times}

GoodUser == "u1"
GoodTitle == [isString |-> TRUE, chars |-> <<"a">>]
NoRemindAt == [kind |-> "undefined", ok |-> FALSE, t |-> 0]
BadRemindAt == [kind |-> "text", ok |-> FALSE, t |-> 0]

\* The createTodo inputs: a valid call with one field varied over all its values,
\* and every combination of a faulty userId, a blank title and an unparsable remindAt.
CreateInputs ==
    {<<u, GoodTitle, NoRemindAt>> : u \in UserInputs}
        \cup {<<GoodUser, ti, NoRemindAt>> : ti \in TitleInputs}
        \cup {<<GoodUser, GoodTitle, r>> : r \in RemindInputs}
        \cup {<<u, ti, r>> : u \in UserInputs,
                             ti \in {GoodTitle, [isString |-> TRUE, chars |-> <<" ">>]},
                             r \in {NoRemindAt, BadRemindAt}}

TodoIdInputs == 0..(MaxTodos + 1)

\* The call in slot p resumes after the Store call it awaited.
ServiceResume(p) ==
    \/ CreateTodoStore(p)
    \/ CreateTodoReturn(p)
    \/ CompleteTodoStore(p)
    \/ CompleteTodoReturn(p)
    \/ DeleteTodoStore(p)
    \/ DeleteTodoReturn(p)
    \/ SweepStep(p)

\* One client that awaits each call before it makes the next: no interleaving.
\* Until it takes the outcome of a call, it notes the Store as the call found it;
\* while a sweep runs, it notes the currentTime of the sweep it made just before,
\* if that was its last call.
SeqNext ==
    \/ Tick /\ UNCHANGED obs
    \/ /\ \/ \E in \in CreateInputs : CallCreateTodo(ProcSeq[1], in[1], in[2], in[3])
          \/ \E id \in TodoIdInputs : CallCompleteTodo(ProcSeq[1], id)
          \/ \E id \in TodoIdInputs : CallDeleteTodo(ProcSeq[1], id)
       /\ obs' = [NoNotes EXCEPT !.before = View, !.counterBefore = idCounter]
    \/ /\ \E t \in Times : CallProcessReminders(ProcSeq[1], t)
       /\ obs' = [obs EXCEPT !.before = View, !.counterBefore = idCounter]
    \/ ServiceResume(ProcSeq[1]) /\ UNCHANGED obs
    \/ /\ Settle(ProcSeq[1])
       /\ obs' = IF procs[ProcSeq[1]].op = "processReminders"
                 THEN [NoNotes EXCEPT !.prevSweep = <<procs[ProcSeq[1]].arg.currentTime>>]
                 ELSE NoNotes

SpecSeq == Init /\ [][SeqNext /\ UNCHANGED sched]_vars

\* The createTodo inputs of the concurrent clients.
SomeCreateInputs ==
    {<<GoodUser, GoodTitle, r>> :
        r \in {NoRemindAt, [kind |-> "text", ok |-> TRUE, t |-> 0]}}

\* The free slots are alike: a new call takes the first of them.
FirstFree(p) ==
    /\ Resting(p)
    /\ \A i, j \in DOMAIN ProcSeq : i < j /\ ProcSeq[j] = p => ~Resting(ProcSeq[i])

\* One step of the service call in slot p of the concurrent clients, which
\* contend for the first MaxShared todos.
ConcurrentStep(p) ==
    \/ /\ FirstFree(p)
       /\ \/ /\ idCounter + CreatesInFlight < MaxShared
             /\ \E in \in SomeCreateInputs : CallCreateTodo(p, in[1], in[2], in[3])
          \/ \E id \in 1..MaxTodos : CallCompleteTodo(p, id)
          \/ \E id \in 1..MaxTodos : CallDeleteTodo(p, id)
          \/ \E t \in Times : CallProcessReminders(p, t)
    \/ ServiceResume(p)
    \/ Settle(p)

\* Calls in flight together, each suspended at its Store calls.
Next ==
    \/ Tick /\ UNCHANGED obs
    \/ \E p \in Procs : ConcurrentStep(p) /\ UNCHANGED obs

Spec == Init /\ [][Next /\ UNCHANGED sched]_vars

\* One step of the call in slot p where createTodo, completeTodo and deleteTodo
\* calls are in flight together and a sweep runs only while no other call does.
RaceStep(p) ==
    \/ /\ FirstFree(p)
       /\ \A q \in Procs : procs[q].op # "processReminders"
       /\ \/ /\ idCounter + CreatesInFlight < MaxShared
             /\ \E in \in SomeCreateInputs : CallCreateTodo(p, in[1], in[2], in[3])
          \/ \E id \in 1..MaxTodos : CallCompleteTodo(p, id)
          \/ \E id \in 1..MaxTodos : CallDeleteTodo(p, id)
          \/ /\ \A q \in Procs : Resting(q)
             /\ \E t \in Times : CallProcessReminders(p, t)
    \/ ServiceResume(p)
    \/ Settle(p)

RaceNext ==
    \/ Tick /\ UNCHANGED obs
    \/ \E p \in Procs : RaceStep(p) /\ UNCHANGED obs

SpecRace == Init /\ [][RaceNext /\ UNCHANGED sched]_vars

\* The scheduler, its caller and the timers of the runtime.
SchedNext ==
    \/ \E n \in TaskNames, f \in Callbacks : ScheduleRecurring(n, f)
    \/ \E n \in TaskNames : Stop(n)
    \/ \E h \in 1..MaxTimers, o \in {"returns", "throws", "pending"} : TimerFire(h, o)
    \/ \E h \in 1..MaxTimers, r \in 1..MaxRuns, o \in {"returns", "rejects"} :
          RunSettle(h, r, o)

SpecSched == Init /\ [][SchedNext]_vars

\* The options of the getTodosByUser calls.
OptionInputs ==
    [limit : {<<>>} \cup {<<n>> : n \in 0..MaxTodos},
     offset : {<<>>} \cup {<<n>> : n \in (0 - 1)..MaxTodos},
     includeDeleted : BOOLEAN]

\* One client that creates and soft-deletes todos and lists them, awaiting each call.
QueryNext ==
    \/ \E u \in KnownUsers : CallCreateTodo(ProcSeq[1], u, GoodTitle, NoRemindAt)
    \/ \E id \in 1..MaxTodos : CallDeleteTodo(ProcSeq[1], id)
    \/ \E u \in KnownUsers, o \in OptionInputs : CallGetTodosByUser(ProcSeq[1], u, o)
    \/ CreateTodoStore(ProcSeq[1])
    \/ CreateTodoReturn(ProcSeq[1])
    \/ DeleteTodoStore(ProcSeq[1])
    \/ DeleteTodoReturn(ProcSeq[1])
    \/ GetTodosReturn(ProcSeq[1])
    \/ Settle(ProcSeq[1])

SpecQuery == Init /\ [][QueryNext /\ UNCHANGED <<obs, sched>>]_vars

\* ------------------------------------------------------------------ claims
\* The record a Store update call was aimed at, before and after the call.
Target == todos[last'.index]
TargetAfter == todos'[last'.index]

\* C1: every successful Store update of a record, with or without an updatedAt in
\* its payload, and whether that is later than, equal to or earlier than the stored
\* one, leaves the record with an updatedAt strictly greater than it had before.
C1_UpdatedAtStrictlyIncreases ==
    [][(last'.op = "update" /\ last'.index # 0)
           => heap'[TargetAfter.updatedAt] > heap[Target.updatedAt]]_vars

\* C1 witness: an update that supplied an updatedAt no later than the stored one has
\* acted, and the record now holds a later time than the one supplied.
C1_Witness ==
    /\ last.op = "update"
    /\ last.index # 0
    /\ last.supplied # <<>>
    /\ heap[todos[last.index].updatedAt] > last.supplied[1]
    /\ heap[todos[last.index].updatedAt] > heap[todos[last.index].createdAt] + 1

\* C6: a Store update aimed at an id that is not stored returns nothing, adds no
\* record, and leaves every stored record and the id counter as they were.
C6_UpdateOfAbsentIdChangesNothing ==
    [][(last'.op = "update" /\ last'.index = 0)
           => /\ ret' = <<>>
              /\ View' = View
              /\ Len(todos') = Len(todos)
              /\ idCounter' = idCounter]_vars

\* C6 witness: an update aimed at an absent id has acted on a Store that holds records.
C6_Witness ==
    /\ last.op = "update"
    /\ last.index = 0
    /\ todos # <<>>
    /\ ret = <<>>

\* C7: a Store update of an existing record leaves its id, userId and createdAt as
\* they were, whatever its payload carries.
C7_ImmutableFieldsKept ==
    [][(last'.op = "update" /\ last'.index # 0)
           => /\ TargetAfter.id = Target.id
              /\ TargetAfter.userId = Target.userId
              /\ heap'[TargetAfter.createdAt] = heap[Target.createdAt]]_vars

\* C8: nothing a caller does to a record it was handed, or to a value it passed in,
\* changes what the Store holds.
C8_CallerCannotReachStoredState ==
    [][last'.op = "mutate" => View' = View]_vars

\* The sequential client's call.
Client == procs[ProcSeq[1]]

\* A record that a sweep at currentTime is to promote.
Eligible(r, currentTime) ==
    /\ r.status = "PENDING"
    /\ r.deletedAt = <<>>
    /\ r.remindAt # <<>>
    /\ r.remindAt[1] <= currentTime

SweepDone == Client.op = "processReminders" /\ Client.pc = "done"

\* C2: run without interleaving, processReminders(t) turns into REMINDER_DUE exactly
\* the stored todos that were PENDING, not soft-deleted and had remindAt <= t, and
\* leaves every other record as it was; a second processReminders(t) right after
\* the first writes nothing to the Store.
C2_SweepPromotesExactlyTheDue ==
    SweepDone =>
        /\ Len(View) = Len(obs.before)
        /\ \A i \in DOMAIN View :
              IF Eligible(obs.before[i], Client.arg.currentTime)
              THEN /\ View[i] = [obs.before[i] EXCEPT !.status = "REMINDER_DUE",
                                                      !.updatedAt = View[i].updatedAt]
                   /\ View[i].updatedAt[1] > obs.before[i].updatedAt[1]
              ELSE View[i] = obs.before[i]
        /\ Client.writes = Cardinality({i \in DOMAIN obs.before :
                                Eligible(obs.before[i], Client.arg.currentTime)})
        /\ obs.prevSweep = <<Client.arg.currentTime>> =>
              Client.writes = 0 /\ View = obs.before

\* C2 witness: a second sweep at the same currentTime has ended over a Store that
\* holds a record the first sweep promoted and a due PENDING record that is
\* soft-deleted.
C2_Witness ==
    /\ SweepDone
    /\ obs.prevSweep = <<Client.arg.currentTime>>
    /\ \E i \in DOMAIN View : View[i].status = "REMINDER_DUE"
    /\ \E i \in DOMAIN View :
          /\ View[i].status = "PENDING"
          /\ View[i].deletedAt # <<>>
          /\ View[i].remindAt # <<>>
          /\ View[i].remindAt[1] <= Client.arg.currentTime

\* A completeTodo call that found its todo DONE has returned.
RecompleteDone ==
    /\ Client.op = "completeTodo"
    /\ Client.pc = "done"
    /\ \E i \in DOMAIN obs.before :
          obs.before[i].id = Client.arg.todoId /\ obs.before[i].status = "DONE"

\* The stored record the client's call names, as the call found it.
Found == obs.before[FindIndex(todos, Client.arg.todoId)]

\* C5: a completeTodo call made when the todo is already DONE writes nothing to the
\* Store and returns the record as stored, with status DONE and the updatedAt it
\* had before the call: that of the first completion, unless the todo was
\* soft-deleted since.
C5_RecompleteReturnsStored ==
    RecompleteDone =>
        /\ Client.err = ""
        /\ Client.writes = 0
        /\ View = obs.before
        /\ Len(Client.result) = 1
        /\ Deref(Client.result[1], heap) = Found
        /\ Client.result[1].status = "DONE"
        /\ Found.deletedAt = <<>> => Found.updatedAt = doneAt[Client.arg.todoId]

\* C5 witness: completeTodo has returned a todo that was completed before, then
\* soft-deleted, with an updatedAt later than that of the first completion.
C5_Witness ==
    /\ RecompleteDone
    /\ Client.result # <<>>
    /\ Found.deletedAt # <<>>
    /\ doneAt[Client.arg.todoId] # <<>>
    /\ Found.updatedAt[1] > doneAt[Client.arg.todoId][1]

\* C5 as stated: a completeTodo call made when the todo is already DONE returns it
\* with the same updatedAt as after the first completion.
C5_SameUpdatedAtAsFirstCompletion ==
    RecompleteDone =>
        /\ Client.writes = 0
        /\ Client.result # <<>>
        /\ Client.result[1].status = "DONE"
        /\ <<heap[Client.result[1].updatedAt]>> = doneAt[Client.arg.todoId]

\* The faults of a createTodo input.
EmptyUserId == Client.arg.userId = ""
BlankTitle ==
    \/ ~Client.arg.title.isString
    \/ \A i \in DOMAIN Client.arg.title.chars : Client.arg.title.chars[i] = " "
UnknownUser == Client.arg.userId # "" /\ Client.arg.userId \notin KnownUsers
UnparsableRemindAt ==
    Client.arg.remindAt.kind \in {"text", "date"} /\ ~Client.arg.remindAt.ok

CreateDone == Client.op = "createTodo" /\ Client.pc = "done"

\* C9: createTodo with an empty userId, a title that is blank after trimming or an
\* unparsable remindAt fails with ValidationError, and with a userId the User Lookup
\* does not resolve it fails with NotFoundError (of two faults, the one the code
\* tests first decides: userId, title, user, remindAt); in each of these failures
\* the stored todos and the id counter are as they were.
C9_CreateFailuresWriteNothing ==
    (CreateDone /\ (EmptyUserId \/ BlankTitle \/ UnknownUser \/ UnparsableRemindAt)) =>
        /\ Client.err = IF EmptyUserId \/ BlankTitle THEN "ValidationError"
                        ELSE IF UnknownUser THEN "NotFoundError"
                        ELSE "ValidationError"
        /\ Client.result = <<>>
        /\ Client.writes = 0
        /\ View = obs.before
        /\ idCounter = obs.counterBefore

\* C9 witness: createTodo for a known user with a good title and an unparsable
\* remindAt has failed over a Store that holds a record.
C9_Witness ==
    /\ CreateDone
    /\ UnparsableRemindAt
    /\ ~EmptyUserId /\ ~BlankTitle /\ ~UnknownUser
    /\ Client.err = "ValidationError"
    /\ todos # <<>>

\* C10: for a userId the User Lookup resolves, a title that is not blank and a
\* remindAt that is absent or parsable, createTodo stores exactly one new record and
\* returns it with status PENDING, createdAt equal to updatedAt, no deletedAt, and
\* remindAt the instant the input denotes (none when no remindAt was given).
C10_CreateStoresOnePendingRecord ==
    (CreateDone /\ ~(EmptyUserId \/ BlankTitle \/ UnknownUser \/ UnparsableRemindAt)) =>
        /\ Client.err = ""
        /\ Client.writes = 1
        /\ idCounter = obs.counterBefore + 1
        /\ Len(View) = Len(obs.before) + 1
        /\ SubSeq(View, 1, Len(obs.before)) = obs.before
        /\ Len(Client.result) = 1
        /\ Deref(Client.result[1], heap) = View[Len(View)]
        /\ LET r == View[Len(View)]
           IN  /\ r.status = "PENDING"
               /\ r.userId = Client.arg.userId
               /\ r.createdAt # <<>>
               /\ r.createdAt = r.updatedAt
               /\ r.deletedAt = <<>>
               /\ r.remindAt = IF Client.arg.remindAt.kind \in {"undefined", "null"}
                               THEN <<>>
                               ELSE <<Client.arg.remindAt.t>>

\* C10 witness: createTodo with a remindAt given as text has returned the second
\* record of the Store, after the clock advanced.
C10_Witness ==
    /\ CreateDone
    /\ Client.err = ""
    /\ Client.arg.remindAt.kind = "text"
    /\ Len(todos) = 2
    /\ Client.result # <<>>
    /\ Client.result[1].remindAt # Undef
    /\ heap[Client.result[1].createdAt] > 0

\* C3: when a sweep is interleaved with completeTodo, deleteTodo or another sweep,
\* it writes REMINDER_DUE only to a record whose stored status is PENDING and whose
\* stored deletedAt is absent at the moment of the write.
C3_SweepWritesOnlyToLivePending ==
    [][\A p \in Procs :
          (/\ procs[p].op = "processReminders"
           /\ procs'[p].op = "processReminders"
           /\ procs'[p].writes > procs[p].writes)
          => LET i == FindIndex(todos, Head(SkipLeading(procs[p].due)).id)
             IN  /\ i # 0
                 /\ todos[i].status = "PENDING"
                 /\ todos[i].deletedAt = Undef]_vars

\* C4: a todo whose stored status is DONE is DONE in every later state, whatever
\* createTodo, completeTodo, deleteTodo and processReminders calls follow or
\* interleave.
C4_DoneIsFinal ==
    [][\A i \in DOMAIN todos :
          todos[i].status = "DONE" => todos'[i].status = "DONE"]_vars

\* The ids of a sequence of records.
Ids(s) == [i \in DOMAIN s |-> s[i].id]

GetDone == Client.op = "getTodosByUser" /\ Client.pc = "done"

\* The stored todos of the user the client asked for, in insertion order.
OfUser ==
    LET Mine(t) == t.userId = Client.arg.userId
    IN  SelectSeq(todos, Mine)

\* Those of them that are not soft-deleted.
LiveOfUser ==
    LET Live(t) == t.deletedAt = Undef
    IN  SelectSeq(OfUser, Live)

\* C11: getTodosByUser(userId, {limit, offset}) returns, for every limit >= 0
\* (limit = 0 too) and every offset, exactly the todos at positions
\* [max(0, offset), max(0, offset) + limit) of the user's todos that are not
\* soft-deleted, in insertion order; an absent limit stands for the remaining count.
C11_PageIsTheSlice ==
    (GetDone /\ ~Client.arg.options.includeDeleted) =>
        LET o == Client.arg.options
            from == IF o.offset = <<>> \/ o.offset[1] < 0 THEN 0 ELSE o.offset[1]
            count == IF o.limit = <<>> THEN Len(LiveOfUser) ELSE o.limit[1]
            to == IF from + count > Len(LiveOfUser) THEN Len(LiveOfUser) ELSE from + count
        IN  Ids(Client.result) = Ids(SubSeq(LiveOfUser, from + 1, to))

DeleteDone == Client.op = "deleteTodo" /\ Client.pc = "done" /\ Client.err = ""

\* What holds once deleteTodo has succeeded, and of every getTodosByUser result.
C12_Listed ==
    /\ DeleteDone =>
          \E i \in DOMAIN todos :
              todos[i].id = Client.arg.todoId /\ todos[i].deletedAt # Undef
    /\ (GetDone /\ Client.arg.options = NoOptions) =>
          Ids(Client.result) = Ids(LiveOfUser)
    /\ (GetDone /\ Client.arg.options = [NoOptions EXCEPT !.includeDeleted = TRUE]) =>
          Ids(Client.result) = Ids(OfUser)

\* C12: after deleteTodo succeeds the todo's stored deletedAt is set and stays set,
\* every later getTodosByUser for its owner with default options omits it and one
\* with includeDeleted = true contains it, and the record stays in the Store.
C12_SoftDeleteHidesButKeeps ==
    [][/\ C12_Listed'
       /\ Len(todos') >= Len(todos)
       /\ \A i \in DOMAIN todos :
             /\ todos'[i].id = todos[i].id
             /\ todos[i].deletedAt # Undef => todos'[i].deletedAt # Undef]_vars

\* C12 witness: getTodosByUser with default options has returned the live todo of
\* a user who also has a soft-deleted one.
C12_Witness ==
    /\ GetDone
    /\ Client.arg.options = NoOptions
    /\ Len(Client.result) = 1
    /\ Len(OfUser) = 2
    /\ OfUser[1].deletedAt # Undef

\* The timers that setInterval created and clearInterval has not cancelled.
ActiveTimers == {h \in DOMAIN sched.timers : sched.timers[h].active}

\* A cancelled timer starts no run and stays cancelled.
CancelledStaysQuiet ==
    \A h \in DOMAIN sched.timers :
        ~sched.timers[h].active =>
            /\ ~sched'.timers[h].active
            /\ Len(sched'.timers[h].runs) = Len(sched.timers[h].runs)

\* Each name has at most one active timer, the one the map records for it.
OneTimerPerName ==
    /\ \A h \in ActiveTimers :
          /\ Has(sched, sched.timers[h].name)
          /\ sched.intervals[sched.timers[h].name] = h
    /\ \A n \in DOMAIN sched.intervals :
          /\ sched.intervals[n] \in ActiveTimers
          /\ sched.timers[sched.intervals[n]].name = n

\* C13: after any scheduleRecurring and stop calls each task name has at most one
\* active timer, the one recorded in the scheduler's map; registering under a name
\* that is registered cancels the prior timer first, and the callback it replaced
\* is never started again.
C13_OneActiveTimerPerName ==
    [][/\ OneTimerPerName'
       /\ CancelledStaysQuiet
       /\ (sched'.event.op = "schedule" /\ Has(sched, sched'.event.name)) =>
             /\ ~sched'.timers[sched.intervals[sched'.event.name]].active
             /\ sched'.intervals[sched'.event.name] = Len(sched'.timers)
             /\ sched'.intervals[sched'.event.name] # sched.intervals[sched'.event.name]]_vars

\* C13 witness: a name was registered twice; the first timer ran its callback and is
\* cancelled, the second is active and has run its own.
C13_Witness ==
    \E h1, h2 \in DOMAIN sched.timers :
        /\ h1 < h2
        /\ sched.timers[h1].name = sched.timers[h2].name
        /\ sched.timers[h1].fn # sched.timers[h2].fn
        /\ ~sched.timers[h1].active /\ sched.timers[h1].runs # <<>>
        /\ sched.timers[h2].active /\ sched.timers[h2].runs # <<>>
        /\ sched.event.op = "timer"

\* A run of timer h failed in this step: its await fn() threw.
FailedNow(h) ==
    \E r \in DOMAIN sched'.timers[h].runs :
        /\ sched'.timers[h].runs[r] \in {"caught", "escaped"}
        /\ r \in DOMAIN sched.timers[h].runs => sched.timers[h].runs[r] = "running"

\* C14: a callback run that throws or whose promise is rejected is caught and
\* reported and goes no further: the timer stays registered and active, the process
\* lives, and the timer's next tick calls the callback again.
C14_FailedRunIsIsolated ==
    [][\A h \in DOMAIN sched.timers :
          (sched'.event.op = "timer" /\ FailedNow(h)) =>
              /\ ~sched'.crashed
              /\ \A r \in DOMAIN sched'.timers[h].runs : sched'.timers[h].runs[r] # "escaped"
              /\ sched'.intervals = sched.intervals
              /\ \A k \in DOMAIN sched.timers :
                    sched'.timers[k].active = sched.timers[k].active
              /\ (sched.timers[h].active /\ Len(sched'.timers[h].runs) < MaxRuns) =>
                    (ENABLED TimerFire(h, "returns"))']_vars

\* C14 witness: a timer's first run threw, and its second run was started and returned.
C14_Witness ==
    \E h \in ActiveTimers :
        /\ sched.timers[h].runs = <<"caught", "returned">>
        /\ Has(sched, sched.timers[h].name)
        /\ sched.event.op = "timer"

\* C15: stop(name) on a registered name cancels its timer and removes the
\* registration, so that no further run of the task is started, and leaves every
\* other registration as it was; stop(name) on an unknown name changes nothing.
C15_StopCancelsOnlyItsName ==
    [][/\ sched'.event.op = "stop" =>
             LET n == sched'.event.name
             IN  IF Has(sched, n)
                 THEN /\ ~Has(sched', n)
                      /\ sched'.timers = ClearInterval(sched.timers, sched.intervals[n])
                      /\ ~sched'.timers[sched.intervals[n]].active
                      /\ \A m \in DOMAIN sched.intervals \ {n} :
                            Has(sched', m) /\ sched'.intervals[m] = sched.intervals[m]
                      /\ DOMAIN sched'.intervals = DOMAIN sched.intervals \ {n}
                 ELSE /\ sched'.intervals = sched.intervals
                      /\ sched'.timers = sched.timers
                      /\ sched'.crashed = sched.crashed
       /\ \A h \in DOMAIN sched.timers :
             (~sched.timers[h].active /\ ~Has(sched, sched.timers[h].name)) =>
                 /\ ~sched'.timers[h].active
                 /\ Len(sched'.timers[h].runs) = Len(sched.timers[h].runs)]_vars

\* C15 witness: stop has cancelled the timer of one name, which had a run in
\* flight, while another name is registered with an active timer.
C15_Witness ==
    /\ sched.event.op = "stop"
    /\ ~Has(sched, sched.event.name)
    /\ \E h \in DOMAIN sched.timers :
          /\ sched.timers[h].name = sched.event.name
          /\ ~sched.timers[h].active
          /\ \E r \in DOMAIN sched.timers[h].runs : sched.timers[h].runs[r] = "running"
    /\ \E m \in DOMAIN sched.intervals : sched.intervals[m] \in ActiveTimers

\* A sweep has made its findDueReminders call and not yet looked at the result.
SweepCalled == Client.op = "processReminders" /\ Client.pc = "sweep_loop"

\* The stored records that are PENDING with remindAt set and no later than currentTime.
DueAt(currentTime) ==
    LET Due(t) == /\ t.status = "PENDING"
                  /\ t.remindAt # Undef
                  /\ heap[t.remindAt] <= currentTime
    IN  SelectSeq(todos, Due)

\* C16: findDueReminders(currentTime) returns, in insertion order, exactly the
\* stored records that are PENDING and have remindAt set and <= currentTime
\* (remindAt = currentTime included); a todo without remindAt is never returned,
\* and so no sweep ever makes it REMINDER_DUE.
C16_DueAreExactlyPendingElapsed ==
    /\ SweepCalled =>
          /\ Ids(Client.due) = Ids(DueAt(Client.arg.currentTime))
          /\ \A k \in DOMAIN Client.due :
                /\ Client.due[k].status = "PENDING"
                /\ Client.due[k].deletedAt = DueAt(Client.arg.currentTime)[k].deletedAt
    /\ \A i \in DOMAIN todos :
          todos[i].remindAt = Undef => todos[i].status # "REMINDER_DUE"

\* C16 witness: a sweep's findDueReminders returned the second stored record, whose
\* remindAt is the sweep's currentTime, and not the first, which has no remindAt.
C16_Witness ==
    /\ SweepCalled
    /\ Len(todos) = 2
    /\ todos[1].remindAt = Undef /\ todos[1].status = "PENDING"
    /\ todos[2].remindAt # Undef
    /\ heap[todos[2].remindAt] = Client.arg.currentTime
    /\ Ids(Client.due) = <<todos[2].id>>

\* C17: a status becomes REMINDER_DUE only by a processReminders step on a todo
\* with remindAt set, and every status change in any run is one of
\* PENDING -> REMINDER_DUE, PENDING -> DONE, REMINDER_DUE -> DONE.
C17_OnlyLifecycleTransitions ==
    [][\A i \in DOMAIN todos :
          todos'[i].status # todos[i].status =>
              /\ <<todos[i].status, todos'[i].status>> \in
                    {<<"PENDING", "REMINDER_DUE">>, <<"PENDING", "DONE">>,
                     <<"REMINDER_DUE", "DONE">>}
              /\ todos'[i].status = "REMINDER_DUE" =>
                    /\ todos[i].remindAt # Undef
                    /\ \E p \in Procs :
                          /\ procs[p].op = "processReminders"
                          /\ procs'[p].writes = procs[p].writes + 1
                          /\ heap[todos[i].remindAt] <= procs[p].arg.currentTime]_vars

\* C18: in completeTodo the Store update that follows a successful findById always
\* finds the record, under every interleaving of service calls: the NotFoundError
\* after the update is never thrown.
C18_UpdateAfterLookupFinds ==
    \A p \in Procs :
        procs[p].op = "completeTodo" =>
            /\ procs[p].pc = "complete_updated" => procs[p].updated # <<>>
            /\ procs[p].err = "NotFoundError" => procs[p].writes = 0

\* C18 witness: completeTodo found its todo live, a deleteTodo in flight then
\* soft-deleted it, and completeTodo's update found the record all the same.
C18_Witness ==
    \E p, q \in Procs :
        /\ procs[p].op = "completeTodo" /\ procs[p].pc = "complete_updated"
        /\ procs[p].todo # <<>> /\ procs[p].todo[1].deletedAt = Undef
        /\ procs[p].updated # <<>> /\ procs[p].updated[1].deletedAt # Undef
        /\ procs[q].op = "deleteTodo" /\ procs[q].pc = "delete_updated"

\* C19: after any Store operations the ids of the stored records are pairwise
\* distinct and are the ones create gave them, and the number of stored records is
\* the id counter.
C19_IdsDistinctAndStable ==
    /\ Len(todos) = idCounter
    /\ \A i \in DOMAIN todos : todos[i].id = i
    /\ \A i, j \in DOMAIN todos : i # j => todos[i].id # todos[j].id

\* A completeTodo call has returned for a todo that was soft-deleted and not DONE.
CompletedDeleted ==
    /\ Client.op = "completeTodo"
    /\ Client.pc = "done"
    /\ \E i \in DOMAIN obs.before :
          /\ obs.before[i].id = Client.arg.todoId
          /\ obs.before[i].deletedAt # <<>>
          /\ obs.before[i].status # "DONE"

\* The place of the client's todo in the Store.
At == FindIndex(todos, Client.arg.todoId)

\* C20: deleteTodo succeeds on a todo in any status and leaves its status, title,
\* remindAt, userId and createdAt as they were, and completeTodo on a soft-deleted
\* todo makes it DONE and leaves its deletedAt as it was.
C20_DeletionOrthogonalToStatus ==
    /\ (Client.op = "deleteTodo" /\ Client.pc = "done" /\ At # 0) =>
          /\ Client.err = ""
          /\ Len(View) = Len(obs.before)
          /\ View[At].deletedAt # <<>>
          /\ View[At] = [obs.before[At] EXCEPT !.deletedAt = View[At].deletedAt,
                                               !.updatedAt = View[At].updatedAt]
          /\ \A j \in DOMAIN View : j # At => View[j] = obs.before[j]
    /\ CompletedDeleted =>
          /\ Client.err = ""
          /\ View[At] = [obs.before[At] EXCEPT !.status = "DONE",
                                               !.updatedAt = View[At].updatedAt]
          /\ Client.result # <<>>
          /\ Deref(Client.result[1], heap) = View[At]

\* C20 witness: completeTodo has returned, DONE, a todo that was REMINDER_DUE and
\* soft-deleted.
C20_Witness ==
    /\ CompletedDeleted
    /\ obs.before[At].status = "REMINDER_DUE"
    /\ View[At].status = "DONE"
    /\ View[At].deletedAt # <<>>

\* deleteTodo has returned for a todo that was already soft-deleted.
DeletedAgain ==
    /\ Client.op = "deleteTodo"
    /\ Client.pc = "done"
    /\ At # 0
    /\ obs.before[At].deletedAt # <<>>

\* C21: deleteTodo on a todo that is already soft-deleted succeeds, leaves deletedAt
\* set, to a time not earlier than the one it had (the clock never goes back), and
\* leaves updatedAt strictly later than it was.
C21_SecondDeleteRestamps ==
    DeletedAgain =>
        /\ Client.err = ""
        /\ Client.writes = 1
        /\ View[At].deletedAt # <<>>
        /\ View[At].deletedAt[1] >= obs.before[At].deletedAt[1]
        /\ View[At].deletedAt[1] <= now
        /\ View[At].updatedAt[1] > obs.before[At].updatedAt[1]
        /\ View[At].status = obs.before[At].status

\* C21 witness: a second deleteTodo, made after the clock advanced, has returned
\* and the todo's deletedAt is later than it was.
C21_Witness ==
    /\ DeletedAgain
    /\ View[At].deletedAt[1] > obs.before[At].deletedAt[1]
    /\ View[At].updatedAt[1] > View[At].deletedAt[1]

\* completeTodo in slot p and deleteTodo in slot q have both issued their update
\* of todo id.
BothWrote(p, q, id) ==
    /\ procs[p].op = "completeTodo" /\ procs[p].arg.todoId = id /\ procs[p].writes = 1
    /\ procs[q].op = "deleteTodo" /\ procs[q].arg.todoId = id /\ procs[q].writes = 1

Raced ==
    \A p, q \in Procs, i \in DOMAIN todos :
        BothWrote(p, q, todos[i].id) =>
            todos[i].status = "DONE" /\ todos[i].deletedAt # Undef

\* C22: when completeTodo and deleteTodo are called on the same todo, not yet DONE,
\* and interleave in any order at their Store calls, the stored record ends with
\* status DONE and deletedAt set, and stays so: neither update is lost.
C22_NoLostUpdate ==
    [][/\ Raced'
       /\ \A i \in DOMAIN todos :
             /\ todos[i].status = "DONE" => todos'[i].status = "DONE"
             /\ todos[i].deletedAt # Undef => todos'[i].deletedAt # Undef]_vars

\* C22 witness: completeTodo looked the todo up and wrote DONE while a deleteTodo
\* was in flight, which then wrote deletedAt; both are still to return.
C22_Witness ==
    \E p, q \in Procs, i \in DOMAIN todos :
        /\ BothWrote(p, q, todos[i].id)
        /\ procs[p].pc = "complete_updated"
        /\ procs[q].pc = "delete_updated"
        /\ procs[p].updated # <<>> /\ procs[p].updated[1].deletedAt = Undef
        /\ todos[i].status = "DONE" /\ todos[i].deletedAt # Undef

====
